---- MODULE Spec2Model ----
(***************************************************************************)
(* TECNOsense tracker: the historical backfill (backfill.py) with its      *)
(* batch committer, and the live simulator (simulate.py) with its          *)
(* write-on-change gate.                                                   *)
(*                                                                         *)
(* Timestamps are seconds since a Monday 00:00.  A record of the backfill  *)
(* is identified by its room and its timestamp; the sensor payload does    *)
(* not influence the control flow of the backfill and is not carried.      *)
(***************************************************************************)
EXTENDS Integers, Sequences, FiniteSets, TLC

\* ---------------------------------------------------------------- bounds
MaxRooms == 2        \* ROOM_IDS holds 1..MaxRooms entities
MaxBatch == 3        \* BATCH_SIZE is drawn from 1..MaxBatch
MaxDays == 1         \* NUM_DAYS_HISTORY is drawn from 1..MaxDays
MaxTicks == 6        \* iterations of the live simulator's loop that are explored

\* HISTORY_INTERVAL_MINUTES is drawn from these: one that divides a day into
\* 24 ticks, one that divides it into 3, one that does not divide it, and one
\* longer than a day.
Intervals == {60, 480, 1000, 2000}

\* ------------------------------------------------------ program constants
max_retries == 5
base_retry_delay == 5
SecondsPerMinute == 60
SecondsPerDay == 86400
SecondsPerHour == 3600
TIME_ACCELERATION_FACTOR == 60
SENTINEL == -1

VARIABLES
    \* configuration of backfill.py (module-level settings, fixed per run)
    ROOM_IDS,                   \* number n of configured rooms; the rooms are 1..n
    BATCH_SIZE,
    NUM_DAYS_HISTORY,
    HISTORY_INTERVAL_MINUTES,
    \* backfill_historical_data
    pc,                         \* "loop", "commit", "ret", "completed", "returned", "raised"
    now,
    current_time,
    room_idx,                   \* position of the for loop over ROOM_IDS
    data_batch,
    total_points,
    points_generated,
    progress,                   \* last progress computed: <<numerator, denominator>> of the percentage
    \* commit_batch_with_retry (one invocation)
    call_site,                  \* "full" (line 92) or "trailing" (line 105)
    batch_data,                 \* the parameter of line 52
    attempt,                    \* commit calls made in this invocation
    sent,                       \* the records put into the write batch of each call, in order
    calls,                      \* what the store answered to each of them, in order
    retry_delay,
    waited,                     \* the sleeps of this invocation, in order
    result,                     \* "none", "success" (True), "exhausted" (False), "raised"
    \* observers of the run
    sink,                       \* records visible in the store, in commit order
    submitted,                  \* records handed to the committer, in order
    outcomes,                   \* result of every committer invocation, in order
    sites,                      \* call site of every committer invocation, in order
    pauses,                     \* number of inter-batch pauses taken
    \* simulate_accelerated_time
    sim_pc,                     \* "idle", "running", "raised", "stopped"
    current_simulated_time,
    tick,                       \* iterations of the while loop begun
    sim_room,                   \* position of the for loop; 0 between iterations
    last_written_state,         \* room -> person_count
    current_count,              \* line 65, of the room handled last
    wrote,                      \* line 72 for that room: "no", "ok" or "failed"
    sink_last,                  \* room -> <<avg_person_count of the newest record stored>>
    \* observer: room 1's generated counts and the ticks of its writes, recorded
    \* for as long as the counts follow Scenario and no write fails
    tracking,
    seen,
    write_ticks,
    \* generate_sensor_data, called on its own
    gen_pc,                     \* "idle", "ready", "done"
    gen_timestamp,              \* the argument
    gen_data                    \* <<the record returned>>

bfvars == <<ROOM_IDS, BATCH_SIZE, NUM_DAYS_HISTORY, HISTORY_INTERVAL_MINUTES, pc, now,
            current_time, room_idx, data_batch, total_points, points_generated, progress,
            call_site, attempt, calls, batch_data, sent, retry_delay, waited, result, sink, submitted,
            outcomes, sites, pauses>>

simvars == <<sim_pc, current_simulated_time, tick, sim_room, last_written_state,
             current_count, wrote, sink_last, tracking, seen, write_ticks>>

genvars == <<gen_pc, gen_timestamp, gen_data>>

vars == <<bfvars, simvars, genvars>>

\* ------------------------------------------------------------- backfill.py

\* timedelta(minutes=HISTORY_INTERVAL_MINUTES), in seconds
Interval == HISTORY_INTERVAL_MINUTES * SecondsPerMinute

\* line 81
TotalPoints(days, interval, rooms) == ((days * 24 * 60) \div interval) * rooms

BackfillInit ==
    /\ ROOM_IDS \in 1..MaxRooms
    /\ BATCH_SIZE \in 1..MaxBatch
    /\ NUM_DAYS_HISTORY \in 1..MaxDays
    /\ HISTORY_INTERVAL_MINUTES \in Intervals
    /\ pc = "loop"
    /\ now = NUM_DAYS_HISTORY * SecondsPerDay
    /\ current_time = now - NUM_DAYS_HISTORY * SecondsPerDay
    /\ room_idx = 1
    /\ data_batch = <<>>
    /\ total_points = TotalPoints(NUM_DAYS_HISTORY, HISTORY_INTERVAL_MINUTES, ROOM_IDS)
    /\ points_generated = 0
    /\ progress = <<0, 1>>
    /\ call_site = "none"
    /\ attempt = 0
    /\ batch_data = <<>>
    /\ sent = <<>>
    /\ calls = <<>>
    /\ retry_delay = base_retry_delay
    /\ waited = <<>>
    /\ result = "none"
    /\ sink = <<>>
    /\ submitted = <<>>
    /\ outcomes = <<>>
    /\ sites = <<>>
    /\ pauses = 0

\* the loop test with <= for <: one tick too many
MoreTicks_Inclusive == current_time <= now

\* line 84
MoreTicks == current_time < now

\* the batch-size test with > for >=
BatchFull_Strict(batch) == Len(batch) > BATCH_SIZE

\* line 91
BatchFull(batch) == Len(batch) >= BATCH_SIZE

\* the record of lines 86-87, without its sensor payload
NewRecord == [room_id |-> room_idx, timestamp |-> current_time]

\* line 102 moved into the for body: the clock advances after every record
AdvanceLoop_PerRecord ==
    /\ room_idx' = IF room_idx < ROOM_IDS THEN room_idx + 1 ELSE 1
    /\ current_time' = current_time + Interval

\* the for loop moves to the next room; after the last room, line 102
AdvanceLoop ==
    /\ room_idx' = IF room_idx < ROOM_IDS THEN room_idx + 1 ELSE 1
    /\ current_time' = IF room_idx < ROOM_IDS THEN current_time ELSE current_time + Interval

\* entry of commit_batch_with_retry(db, batch), lines 52-55
CallCommitter(site, batch) ==
    /\ pc' = "commit"
    /\ call_site' = site
    /\ attempt' = 0
    /\ batch_data' = batch
    /\ sent' = <<>>
    /\ calls' = <<>>
    /\ retry_delay' = base_retry_delay
    /\ waited' = <<>>
    /\ result' = "none"
    /\ submitted' = submitted \o batch
    /\ sites' = Append(sites, site)

\* lines 85-92: one pass of the for body up to the batch-size test
Generate ==
    /\ pc = "loop"
    /\ MoreTicks
    /\ points_generated' = points_generated + 1
    /\ data_batch' = Append(data_batch, NewRecord)
    /\ IF BatchFull(data_batch')
       THEN /\ CallCommitter("full", data_batch')
            /\ UNCHANGED <<room_idx, current_time>>
       ELSE /\ AdvanceLoop
            /\ UNCHANGED <<pc, call_site, attempt, calls, batch_data, sent, retry_delay, waited, result, submitted,
                           sites>>
    /\ UNCHANGED <<ROOM_IDS, BATCH_SIZE, NUM_DAYS_HISTORY, HISTORY_INTERVAL_MINUTES, now,
                   total_points, progress, sink, outcomes, pauses>>

\* batch_data[1:]: the first record is left out of the write batch
BatchToSend_Rest(records) == Tail(records)

\* lines 59-62: every record of batch_data is set on the write batch, in order
BatchToSend(records) == records

\* a backoff that grows by the base delay instead of doubling
NextDelay_Additive(d) == d + base_retry_delay

\* line 68
NextDelay(d) == d * 2

\* range(max_retries + 1): one attempt too many
RetriesLeft_OneMore(n) == n <= max_retries

\* line 57: the loop of the committer goes on
RetriesLeft(n) == n < max_retries

\* the committer returns `r` to its caller (line 64 or line 71)
Return(r) ==
    /\ pc' = "ret"
    /\ result' = r
    /\ outcomes' = Append(outcomes, r)

\* lines 57-64: a commit call that succeeds; the whole batch becomes visible
CommitOk ==
    /\ pc = "commit"
    /\ attempt' = attempt + 1
    /\ sent' = Append(sent, BatchToSend(batch_data))
    /\ calls' = Append(calls, "ok")
    /\ sink' = sink \o BatchToSend(batch_data)
    /\ Return("success")
    /\ UNCHANGED <<retry_delay, waited>>

\* a store that is not all-or-nothing: the failed call leaves the first record
\* of the write batch visible
CommitTransient_PartialWrite ==
    /\ pc = "commit"
    /\ attempt' = attempt + 1
    /\ sent' = Append(sent, BatchToSend(batch_data))
    /\ calls' = Append(calls, "transient")
    /\ waited' = Append(waited, retry_delay)
    /\ retry_delay' = NextDelay(retry_delay)
    /\ IF RetriesLeft(attempt')
       THEN UNCHANGED <<pc, result, outcomes>>
       ELSE Return("exhausted")
    /\ sink' = sink \o SubSeq(BatchToSend(batch_data), 1, 1)

\* the last failure returns without the sleep of line 67
CommitTransient_NoFinalWait ==
    /\ pc = "commit"
    /\ attempt' = attempt + 1
    /\ sent' = Append(sent, BatchToSend(batch_data))
    /\ calls' = Append(calls, "transient")
    /\ IF RetriesLeft(attempt')
       THEN /\ waited' = Append(waited, retry_delay)
            /\ retry_delay' = NextDelay(retry_delay)
            /\ UNCHANGED <<pc, result, outcomes>>
       ELSE /\ Return("exhausted")
            /\ UNCHANGED <<waited, retry_delay>>
    /\ UNCHANGED sink

\* lines 65-71: a commit call that raises ResourceExhausted or RetryError
CommitTransient ==
    /\ pc = "commit"
    /\ attempt' = attempt + 1
    /\ sent' = Append(sent, BatchToSend(batch_data))
    /\ calls' = Append(calls, "transient")
    /\ waited' = Append(waited, retry_delay)
    /\ retry_delay' = NextDelay(retry_delay)
    /\ IF RetriesLeft(attempt')
       THEN UNCHANGED <<pc, result, outcomes>>
       ELSE Return("exhausted")
    /\ UNCHANGED sink

\* `except Exception`: any error of the store is waited out and retried
CommitFatal_Retried ==
    /\ pc = "commit"
    /\ attempt' = attempt + 1
    /\ sent' = Append(sent, BatchToSend(batch_data))
    /\ calls' = Append(calls, "fatal")
    /\ waited' = Append(waited, retry_delay)
    /\ retry_delay' = NextDelay(retry_delay)
    /\ IF RetriesLeft(attempt')
       THEN UNCHANGED <<pc, result, outcomes>>
       ELSE Return("exhausted")
    /\ UNCHANGED sink

\* `except Exception: return True`: the error is dropped and the batch skipped
CommitFatal_Swallowed ==
    /\ pc = "commit"
    /\ attempt' = attempt + 1
    /\ sent' = Append(sent, BatchToSend(batch_data))
    /\ calls' = Append(calls, "fatal")
    /\ Return("success")
    /\ UNCHANGED <<retry_delay, waited, sink>>

\* lines 63, 65: a commit call that raises any other exception; no handler of
\* backfill.py catches it, so it ends the committer and the driver
CommitFatal ==
    /\ pc = "commit"
    /\ attempt' = attempt + 1
    /\ sent' = Append(sent, BatchToSend(batch_data))
    /\ calls' = Append(calls, "fatal")
    /\ pc' = "raised"
    /\ result' = "raised"
    /\ outcomes' = Append(outcomes, "raised")
    /\ UNCHANGED <<retry_delay, waited, sink>>

CommitAttempt ==
    /\ \/ CommitOk
       \/ CommitTransient
       \/ CommitFatal
    /\ UNCHANGED <<ROOM_IDS, BATCH_SIZE, NUM_DAYS_HISTORY, HISTORY_INTERVAL_MINUTES, now,
                   current_time, room_idx, data_batch, total_points, points_generated,
                   progress, call_site, batch_data, submitted, sites, pauses>>

\* the committer's result is not looked at
Stop_Never(r) == FALSE

\* line 93
Stop(r) == r # "success"

\* line 96 left out: the batch is not emptied after its commit
AfterCommit_KeepBatch ==
    /\ pc = "ret"
    /\ call_site = "full"
    /\ IF Stop(result)
       THEN /\ pc' = "returned"
            /\ UNCHANGED <<data_batch, progress, pauses, room_idx, current_time>>
       ELSE /\ UNCHANGED data_batch
            /\ IF total_points = 0
               THEN \* line 97 raises ZeroDivisionError
                    /\ pc' = "raised"
                    /\ UNCHANGED <<progress, pauses, room_idx, current_time>>
               ELSE /\ progress' = <<points_generated * 100, total_points>>
                    /\ pauses' = pauses + 1
                    /\ pc' = "loop"
                    /\ AdvanceLoop
    /\ UNCHANGED <<ROOM_IDS, BATCH_SIZE, NUM_DAYS_HISTORY, HISTORY_INTERVAL_MINUTES, now,
                   total_points, points_generated, call_site, attempt, calls, batch_data, sent, retry_delay,
                   waited, result, sink, submitted, outcomes, sites>>

\* lines 93-100: the driver after commit_batch_with_retry returned at line 92
AfterCommit ==
    /\ pc = "ret"
    /\ call_site = "full"
    /\ IF Stop(result)
       THEN /\ pc' = "returned"
            /\ UNCHANGED <<data_batch, progress, pauses, room_idx, current_time>>
       ELSE /\ data_batch' = <<>>
            /\ IF total_points = 0
               THEN \* line 97 raises ZeroDivisionError
                    /\ pc' = "raised"
                    /\ UNCHANGED <<progress, pauses, room_idx, current_time>>
               ELSE /\ progress' = <<points_generated * 100, total_points>>
                    /\ pauses' = pauses + 1
                    /\ pc' = "loop"
                    /\ AdvanceLoop
    /\ UNCHANGED <<ROOM_IDS, BATCH_SIZE, NUM_DAYS_HISTORY, HISTORY_INTERVAL_MINUTES, now,
                   total_points, points_generated, call_site, attempt, calls, batch_data, sent, retry_delay,
                   waited, result, sink, submitted, outcomes, sites>>

\* the trailing commit made without the test of line 104
HasTrailing_Always(batch) == TRUE

\* line 104
HasTrailing(batch) == batch # <<>>

\* lines 104-105 left out: the records left over at the end are never handed over
Flush_NoTrailing ==
    /\ pc = "loop"
    /\ ~MoreTicks
    /\ pc' = "completed"
    /\ UNCHANGED <<call_site, attempt, calls, batch_data, sent, retry_delay, waited, result, submitted,
                   sites>>
    /\ UNCHANGED <<ROOM_IDS, BATCH_SIZE, NUM_DAYS_HISTORY, HISTORY_INTERVAL_MINUTES, now,
                   current_time, room_idx, data_batch, total_points, points_generated,
                   progress, sink, outcomes, pauses>>

\* lines 84, 104-107: the while loop ends
Flush ==
    /\ pc = "loop"
    /\ ~MoreTicks
    /\ IF HasTrailing(data_batch)
       THEN CallCommitter("trailing", data_batch)
       ELSE /\ pc' = "completed"
            /\ UNCHANGED <<call_site, attempt, calls, batch_data, sent, retry_delay, waited, result, submitted,
                            sites>>
    /\ UNCHANGED <<ROOM_IDS, BATCH_SIZE, NUM_DAYS_HISTORY, HISTORY_INTERVAL_MINUTES, now,
                   current_time, room_idx, data_batch, total_points, points_generated,
                   progress, sink, outcomes, pauses>>

\* lines 105-107: the committer returned at line 105; its value is not read
AfterFlush ==
    /\ pc = "ret"
    /\ call_site = "trailing"
    /\ pc' = "completed"
    /\ UNCHANGED <<ROOM_IDS, BATCH_SIZE, NUM_DAYS_HISTORY, HISTORY_INTERVAL_MINUTES, now,
                   current_time, room_idx, data_batch, total_points, points_generated,
                   progress, call_site, attempt, calls, batch_data, sent, retry_delay, waited, result, sink,
                   submitted, outcomes, sites, pauses>>

\* ------------------------------------------------- generate_sensor_data

Hour(timestamp) == (timestamp \div SecondsPerHour) % 24

\* datetime.weekday(): Monday is 0
Weekday(timestamp) == (timestamp \div SecondsPerDay) % 7

\* a randint whose range is one too wide at the top
RandInt_PastUpper(a, b, k) == a + (k % (b - a + 2))

\* random.randint(a, b) for the draw k: a value of a..b
RandInt(a, b, k) == a + (k % (b - a + 1))

\* The outcomes of the random calls of one generate_sensor_data: occ and smoke
\* are random.random() in units of 1/10000, k and delta the randint draws,
\* light the position of random.uniform in its range in percent, noise the
\* uniform(-20, 20) of line 47.
AllDraws ==
    [occ : {0, 3000, 3001, 7000, 7001, 8500, 8501, 9999}, k : 0..30, delta : 0..5,
     smoke : {9990, 9991}, light : {0, 100}, noise : {-20, 20}]

\* the hour windows with <= for <, randint(0, 10) in the transitional hours
Occupancy_LooseBands(hour, weekday, rnd) ==
    IF weekday < 5
    THEN IF (8 <= hour /\ hour < 12) \/ (13 <= hour /\ hour < 17)
         THEN IF rnd.occ > 3000 THEN <<TRUE, RandInt(5, 35, rnd.k)>> ELSE <<FALSE, 0>>
         ELSE IF (12 <= hour /\ hour < 13) \/ (17 <= hour /\ hour <= 20)
              THEN IF rnd.occ > 7000 THEN <<TRUE, RandInt(1, 10, rnd.k)>> ELSE <<FALSE, 0>>
              ELSE <<FALSE, 0>>
    ELSE IF 10 <= hour /\ hour <= 16 /\ rnd.occ > 8500
         THEN <<TRUE, RandInt(1, 5, rnd.k)>>
         ELSE <<FALSE, 0>>

\* lines 32-39 of backfill.py, 27-34 of simulate.py: <<is_occupied, person_count>>
Occupancy(hour, weekday, rnd) ==
    IF weekday < 5
    THEN IF (8 <= hour /\ hour < 12) \/ (13 <= hour /\ hour < 17)
         THEN IF rnd.occ > 3000 THEN <<TRUE, RandInt(5, 35, rnd.k)>> ELSE <<FALSE, 0>>
         ELSE IF (12 <= hour /\ hour < 13) \/ (17 <= hour /\ hour < 20)
              THEN IF rnd.occ > 7000 THEN <<TRUE, RandInt(1, 10, rnd.k)>> ELSE <<FALSE, 0>>
              ELSE <<FALSE, 0>>
    ELSE IF 10 <= hour /\ hour < 16 /\ rnd.occ > 8500
         THEN <<TRUE, RandInt(1, 5, rnd.k)>>
         ELSE <<FALSE, 0>>

\* the occupancy flag of a record taken from the hour band instead of line 32's flag
OccupiedFlag_ByHour(is_occupied, hour) == IF 7 < hour /\ hour < 18 THEN 1 ELSE 0

\* line 44 (39 of simulate.py)
OccupiedFlag(is_occupied, hour) == IF is_occupied THEN 1 ELSE 0

\* the peak taken as the randint draw alone
MaxCount_DrawOnly(person_count, delta) == delta

\* line 43 (38 of simulate.py)
MaxCount(person_count, delta) == person_count + delta

\* lines 24-44 of simulate.py (29-50 of backfill.py); the two floats are in
\* hundredths, as round(x, 2) leaves them
generate_sensor_data(timestamp, rnd) ==
    LET hour == Hour(timestamp)
        occupancy == Occupancy(hour, Weekday(timestamp), rnd)
        is_occupied == occupancy[1]
        person_count == occupancy[2]
    IN  [avg_person_count |-> person_count,
         max_person_count |-> MaxCount(person_count, rnd.delta),
         is_occupied |-> OccupiedFlag(is_occupied, hour),
         is_smoke_detected |-> IF rnd.smoke > 9990 THEN 1 ELSE 0,
         avg_light_intensity |->
             IF is_occupied /\ 7 < hour /\ hour < 18
             THEN 30000 + 250 * rnd.light
             ELSE 1000 + 40 * rnd.light,
         avg_air_quality_ppm |-> (400 + person_count * 15 + rnd.noise) * 100,
         timestamp |-> timestamp]

\* the timestamps generate_sensor_data is called with on its own: every hour
\* of a week, at half past
GenTimes == {d * SecondsPerDay + h * SecondsPerHour + 30 * SecondsPerMinute : d \in 0..6, h \in 0..23}

GenIdle ==
    /\ gen_pc = "idle"
    /\ gen_timestamp = 0
    /\ gen_data = <<>>

GenInit ==
    /\ gen_pc = "ready"
    /\ gen_timestamp \in GenTimes
    /\ gen_data = <<>>

\* one call of generate_sensor_data(timestamp)
GenCall ==
    /\ gen_pc = "ready"
    /\ \E rnd \in AllDraws : gen_data' = <<generate_sensor_data(gen_timestamp, rnd)>>
    /\ gen_pc' = "done"
    /\ UNCHANGED gen_timestamp

\* ------------------------------------------------------------- simulate.py

\* the draws the live simulator is explored with: unoccupied or occupied, four
\* counts per band (1, 3, 5, 8 in the transitional hours), smoke or none
SimDraws ==
    [occ : {0, 9999}, k : {0, 2, 4, 7}, delta : {0, 5}, smoke : {0, 9999}, light : {50},
     noise : {0}]

\* datetime.now() at line 51: Monday 11:57 and 12:00, Monday 19:57, Saturday 15:57
SimStarts == {43020, 43200, 71820, 489420}

\* the generated counts the observer follows
Scenario == <<5, 5, 5, 8, 8, 3>>

BackfillIdle ==
    /\ BATCH_SIZE = 1
    /\ NUM_DAYS_HISTORY = 1
    /\ HISTORY_INTERVAL_MINUTES = 60
    /\ pc = "idle"
    /\ now = 0
    /\ current_time = 0
    /\ room_idx = 1
    /\ data_batch = <<>>
    /\ total_points = 0
    /\ points_generated = 0
    /\ progress = <<0, 1>>
    /\ call_site = "none"
    /\ attempt = 0
    /\ batch_data = <<>>
    /\ sent = <<>>
    /\ calls = <<>>
    /\ retry_delay = base_retry_delay
    /\ waited = <<>>
    /\ result = "none"
    /\ sink = <<>>
    /\ submitted = <<>>
    /\ outcomes = <<>>
    /\ sites = <<>>
    /\ pauses = 0

SimIdle ==
    /\ sim_pc = "idle"
    /\ current_simulated_time = 0
    /\ tick = 0
    /\ sim_room = 0
    /\ last_written_state = <<>>
    /\ current_count = 0
    /\ wrote = "no"
    /\ sink_last = <<>>
    /\ tracking = FALSE
    /\ seen = <<>>
    /\ write_ticks = <<>>

\* the memory started at a count the generator can return
InitialWriteState_Zero == [room_id \in 1..ROOM_IDS |-> 0]

\* line 54
InitialWriteState == [room_id \in 1..ROOM_IDS |-> SENTINEL]

\* lines 51-54
SimInit ==
    /\ ROOM_IDS \in 1..MaxRooms
    /\ sim_pc = "running"
    /\ current_simulated_time \in SimStarts
    /\ tick = 0
    /\ sim_room = 0
    /\ last_written_state = InitialWriteState
    /\ current_count = 0
    /\ wrote = "no"
    /\ sink_last = [room_id \in 1..ROOM_IDS |-> <<>>]
    /\ tracking = TRUE
    /\ seen = <<>>
    /\ write_ticks = <<>>

\* line 58: an iteration of the while loop begins
SimTick ==
    /\ sim_pc = "running"
    /\ sim_room = 0
    /\ tick < MaxTicks
    /\ current_simulated_time' = current_simulated_time + TIME_ACCELERATION_FACTOR
    /\ tick' = tick + 1
    /\ sim_room' = 1
    /\ UNCHANGED <<sim_pc, last_written_state, current_count, wrote, sink_last, tracking,
                   seen, write_ticks>>

\* a gate that also lets a smoke alarm through
ShouldWrite_OrSmoke(data, last_count) ==
    data.avg_person_count # last_count \/ data.is_smoke_detected = 1

\* line 67
ShouldWrite(data, last_count) == data.avg_person_count # last_count

\* the observer's step for a room's iteration
Observe(room_id, count, written) ==
    IF room_id = 1 /\ tracking /\ Len(seen) < Len(Scenario)
    THEN IF count = Scenario[Len(seen) + 1] /\ written # "failed"
         THEN /\ seen' = Append(seen, count)
              /\ write_ticks' = IF written = "ok" THEN Append(write_ticks, tick) ELSE write_ticks
              /\ UNCHANGED tracking
         ELSE /\ tracking' = FALSE
              /\ seen' = <<>>
              /\ write_ticks' = <<>>
    ELSE UNCHANGED <<tracking, seen, write_ticks>>

\* line 75 moved before line 72: the memory is updated before the write is made
SimRoomStep_UpdateFirst(rnd, added) ==
    LET data == generate_sensor_data(current_simulated_time, rnd)
        last_count == last_written_state[sim_room]
    IN  /\ current_count' = data.avg_person_count
        /\ IF ShouldWrite(data, last_count)
           THEN /\ last_written_state' =
                       [last_written_state EXCEPT ![sim_room] = data.avg_person_count]
                /\ IF added
                   THEN /\ wrote' = "ok"
                        /\ sink_last' =
                               [sink_last EXCEPT ![sim_room] = <<data.avg_person_count>>]
                        /\ sim_room' = IF sim_room < ROOM_IDS THEN sim_room + 1 ELSE 0
                        /\ UNCHANGED sim_pc
                   ELSE /\ wrote' = "failed"
                        /\ sim_pc' = "raised"
                        /\ UNCHANGED <<sink_last, sim_room>>
           ELSE /\ wrote' = "no"
                /\ sim_room' = IF sim_room < ROOM_IDS THEN sim_room + 1 ELSE 0
                /\ UNCHANGED <<sim_pc, sink_last, last_written_state>>
        /\ Observe(sim_room, current_count', wrote')

\* lines 60-76 for one room (and lines 78-80 after the last room): `added` tells
\* whether db.collection(...).add(data) returns or raises.  Only
\* KeyboardInterrupt is caught (line 82), so an exception of add leaves the loop.
SimRoomStep(rnd, added) ==
    LET data == generate_sensor_data(current_simulated_time, rnd)
        last_count == last_written_state[sim_room]
    IN  /\ current_count' = data.avg_person_count
        /\ IF ShouldWrite(data, last_count)
           THEN IF added
                THEN /\ wrote' = "ok"
                     /\ sink_last' = [sink_last EXCEPT ![sim_room] = <<data.avg_person_count>>]
                     /\ last_written_state' =
                            [last_written_state EXCEPT ![sim_room] = data.avg_person_count]
                     /\ sim_room' = IF sim_room < ROOM_IDS THEN sim_room + 1 ELSE 0
                     /\ UNCHANGED sim_pc
                ELSE /\ wrote' = "failed"
                     /\ sim_pc' = "raised"
                     /\ UNCHANGED <<sink_last, last_written_state, sim_room>>
           ELSE /\ wrote' = "no"
                /\ sim_room' = IF sim_room < ROOM_IDS THEN sim_room + 1 ELSE 0
                /\ UNCHANGED <<sim_pc, sink_last, last_written_state>>
        /\ Observe(sim_room, current_count', wrote')

\* the break of line 84 left out of the for loop's view: the rooms of the
\* interrupted iteration are still handled
SimRoom_AfterStop ==
    /\ sim_pc \in {"running", "stopped"}
    /\ sim_room >= 1
    /\ \E rnd \in SimDraws, added \in BOOLEAN : SimRoomStep(rnd, added)
    /\ UNCHANGED <<current_simulated_time, tick>>

\* lines 60-80: the for loop handles its next room
SimRoom ==
    /\ sim_pc = "running"
    /\ sim_room >= 1
    /\ \E rnd \in SimDraws, added \in BOOLEAN : SimRoomStep(rnd, added)
    /\ UNCHANGED <<current_simulated_time, tick>>

\* lines 82-84: KeyboardInterrupt
SimCancel ==
    /\ sim_pc = "running"
    /\ sim_pc' = "stopped"
    /\ UNCHANGED <<current_simulated_time, tick, sim_room, last_written_state,
                   current_count, wrote, sink_last, tracking, seen, write_ticks>>

\* ---------------------------------------------------------- specifications

Init == BackfillInit /\ SimIdle /\ GenIdle

Next ==
    \/ Generate /\ UNCHANGED <<simvars, genvars>>
    \/ CommitAttempt /\ UNCHANGED <<simvars, genvars>>
    \/ AfterCommit /\ UNCHANGED <<simvars, genvars>>
    \/ Flush /\ UNCHANGED <<simvars, genvars>>
    \/ AfterFlush /\ UNCHANGED <<simvars, genvars>>

\* the backfill run (backfill.py)
Spec == Init /\ [][Next]_vars

\* a commit call of the committer when the store answers every call with
\* success or with a transient error
CommitReturns ==
    /\ \/ CommitOk
       \/ CommitTransient
    /\ UNCHANGED <<ROOM_IDS, BATCH_SIZE, NUM_DAYS_HISTORY, HISTORY_INTERVAL_MINUTES, now,
                   current_time, room_idx, data_batch, total_points, points_generated,
                   progress, call_site, batch_data, submitted, sites, pauses>>

NextLive ==
    \/ Generate /\ UNCHANGED <<simvars, genvars>>
    \/ CommitReturns /\ UNCHANGED <<simvars, genvars>>
    \/ AfterCommit /\ UNCHANGED <<simvars, genvars>>
    \/ Flush /\ UNCHANGED <<simvars, genvars>>
    \/ AfterFlush /\ UNCHANGED <<simvars, genvars>>

\* the backfill run with a store that answers every commit call: the driver is
\* one sequential thread whose sleeps and commit calls all return, so it always
\* takes its next step
SpecLive == Init /\ [][NextLive]_vars /\ WF_vars(NextLive)

InitSim == BackfillIdle /\ SimInit /\ GenIdle

NextSim ==
    \/ SimTick /\ UNCHANGED <<bfvars, genvars>>
    \/ SimRoom /\ UNCHANGED <<bfvars, genvars>>
    \/ SimCancel /\ UNCHANGED <<bfvars, genvars>>

\* the live simulation (simulate.py)
SpecSim == InitSim /\ [][NextSim]_vars

InitGen ==
    /\ BackfillIdle
    /\ ROOM_IDS = 1
    /\ SimIdle
    /\ GenInit

NextGen == GenCall /\ UNCHANGED <<bfvars, simvars>>

\* generate_sensor_data on its own, for every hour of a week and every draw
SpecGen == InitGen /\ [][NextGen]_vars

\* ------------------------------------------------------------------ claims

Last(s) == s[Len(s)]

\* k answers "transient" in a row
Transients(k) == [i \in 1..k |-> "transient"]

\* every invocation of the committer so far returned success
AllSucceeded == \A i \in 1..Len(outcomes) : outcomes[i] = "success"

NonDecreasing(s) == \A i \in 1..(Len(s) - 1) : s[i].timestamp <= s[i + 1].timestamp

\* C1: when the store answers the first k commit calls (k in 0..4) with a
\* transient error and call k+1 with success, the committer has returned
\* success after exactly k+1 calls, is not calling any more, and has waited
\* the first k of 5, 10, 20, 40 between the calls.
C1_SuccessAfterTransients ==
    \A k \in 0..4 :
        calls = Transients(k) \o <<"ok">>
        => /\ result = "success"
           /\ attempt = k + 1
           /\ pc # "commit"
           /\ waited = SubSeq(<<5, 10, 20, 40>>, 1, k)

C1_Witness ==
    /\ calls = Transients(4) \o <<"ok">>
    /\ result = "success"
    /\ waited = <<5, 10, 20, 40>>

\* C2: the committer never makes a 6th commit call, and when the store answers
\* five calls in a row with a transient error the committer has returned
\* exhaustion after exactly 5 calls.
C2_ExhaustedAfterFive ==
    /\ Len(calls) <= 5
    /\ calls = Transients(5)
       => /\ result = "exhausted"
          /\ attempt = 5
          /\ pc # "commit"

C2_Witness ==
    /\ calls = Transients(5)
    /\ result = "exhausted"
    /\ pc = "ret"

\* C3: a fatal answer of the store is the last call of the invocation: the
\* committer has ended with a failure outcome for its caller, took no backoff
\* wait for it, and when it was the first call there was exactly 1 attempt and
\* no wait at all.
C3_FatalNotRetried ==
    \A i \in 1..Len(calls) :
        calls[i] = "fatal"
        => /\ i = Len(calls)
           /\ pc # "commit"
           /\ result \in {"exhausted", "raised"}
           /\ Last(outcomes) = result
           /\ Len(waited) = Len(calls) - 1
           /\ (i = 1 => attempt = 1 /\ waited = <<>>)

C3_Witness ==
    /\ calls = <<"fatal">>
    /\ attempt = 1
    /\ result = "raised"

\* C4: a run in which every commit succeeded and whose interval divides the
\* horizon has, once completed, generated and submitted exactly
\* entities x (horizon / interval) records, in non-decreasing timestamp order.
C4_AllRecordsSubmitted ==
    (/\ pc = "completed"
     /\ AllSucceeded
     /\ (NUM_DAYS_HISTORY * 24 * 60) % HISTORY_INTERVAL_MINUTES = 0)
    => /\ points_generated = ROOM_IDS * ((NUM_DAYS_HISTORY * 24 * 60) \div HISTORY_INTERVAL_MINUTES)
       /\ Len(submitted) = points_generated
       /\ NonDecreasing(submitted)

\* horizon 1 day, interval 60 minutes, 2 entities: 48 records
C4_Witness ==
    /\ pc = "completed"
    /\ AllSucceeded
    /\ NUM_DAYS_HISTORY = 1
    /\ HISTORY_INTERVAL_MINUTES = 60
    /\ ROOM_IDS = 2
    /\ Len(submitted) = 48

\* C5: once the committer has reported a failure for a full batch, that report
\* is the last thing of the run: every record generated was part of a batch
\* handed over before, no further invocation of the committer was made, and
\* the only pauses are those after the earlier, successful batches.
C5_HaltOnFailure ==
    (/\ outcomes # <<>>
     /\ Last(outcomes) # "success"
     /\ Last(sites) = "full")
    => /\ pc \in {"ret", "returned", "raised"}
       /\ points_generated = Len(submitted)
       /\ Len(sites) = Len(outcomes)
       /\ pauses = Len(outcomes) - 1

\* the driver has returned on exhaustion with history left to generate
C5_Witness ==
    /\ pc = "returned"
    /\ call_site = "full"
    /\ result = "exhausted"
    /\ Len(outcomes) >= 2
    /\ current_time + Interval < now

\* a room's iteration of the live loop (lines 60-76) is taken
RoomStepTaken ==
    /\ sim_pc = "running"
    /\ sim_room >= 1
    /\ (sim_room' # sim_room \/ sim_pc' = "raised")

\* C6: in every room's iteration a write is attempted if and only if the
\* generated avg_person_count differs from the room's last written count;
\* and when room 1's generated counts are 5,5,5,8,8,3 with every write
\* succeeding, its writes are exactly those of ticks 1, 4 and 6.
C6_WriteIffCountChanged ==
    /\ [][RoomStepTaken
          => ((wrote' # "no") <=> (current_count' # last_written_state[sim_room]))]_vars
    /\ [](seen = Scenario => write_ticks = <<1, 4, 6>>)

C6_Witness ==
    /\ tracking
    /\ seen = <<5, 5, 5, 8, 8, 3>>
    /\ tick = 6

\* C7: a failed write leaves the loop running, and the room's last written
\* count at the value of its last successful write.
C7_FailedWriteNotEscalated ==
    wrote = "failed"
    => /\ sim_pc = "running"
       /\ last_written_state[sim_room] # current_count

\* C8: a completed run processed all ticks and every invocation of the
\* committer, the trailing one included, returned success.
C8_CompletedMeansAllCommitted ==
    pc = "completed" => (~MoreTicks /\ AllSucceeded)

\* the invocations of the committer made for the trailing batch
TrailingCalls == {i \in 1..Len(sites) : sites[i] = "trailing"}

\* C9: in a completed run without a failed batch the committer was invoked for
\* a trailing batch exactly once when records were left over after the last
\* full batch and not at all when none were; that invocation is the last one,
\* and every pause belongs to a full batch, none to the trailing one.
C9_TrailingFlushedOnce ==
    (pc = "completed" /\ AllSucceeded)
    => /\ Cardinality(TrailingCalls) = IF points_generated % BATCH_SIZE # 0 THEN 1 ELSE 0
       /\ \A i \in TrailingCalls : i = Len(sites)
       /\ pauses = Len(sites) - Cardinality(TrailingCalls)

C9_Witness ==
    /\ pc = "completed"
    /\ AllSucceeded
    /\ Len(sites) >= 2
    /\ Last(sites) = "trailing"
    /\ pauses = Len(sites) - 1

\* C10 as stated: every record submitted has a timestamp strictly greater than
\* that of the record submitted before it.
C10_StrictlyIncreasing ==
    \A i \in 1..(Len(submitted) - 1) : submitted[i].timestamp < submitted[i + 1].timestamp

\* C10 amended: consecutive records submitted are either the next room of the
\* same tick, with the same timestamp, or the first room of the next tick, one
\* interval later; timestamps never decrease and increase strictly from tick
\* to tick.
C10_OrderedByTickThenRoom ==
    \A i \in 1..(Len(submitted) - 1) :
        LET a == submitted[i]
            b == submitted[i + 1]
        IN  \/ /\ b.timestamp = a.timestamp
               /\ b.room_id = a.room_id + 1
            \/ /\ b.timestamp = a.timestamp + Interval
               /\ a.room_id = ROOM_IDS
               /\ b.room_id = 1

C10_Witness ==
    /\ ROOM_IDS = 2
    /\ Len(submitted) >= 3
    /\ submitted[1].timestamp = submitted[2].timestamp
    /\ submitted[2].timestamp < submitted[3].timestamp

\* the record generate_sensor_data returned
Generated == gen_data[1]

\* C11: every record generated has avg_person_count >= 0 and
\* avg_person_count <= max_person_count <= avg_person_count + 5.
C11_CountBounds ==
    gen_pc = "done"
    => /\ Generated.avg_person_count >= 0
       /\ Generated.avg_person_count <= Generated.max_person_count
       /\ Generated.max_person_count <= Generated.avg_person_count + 5

C11_Witness ==
    /\ gen_pc = "done"
    /\ Generated.avg_person_count = 35
    /\ Generated.max_person_count = 40

\* C12: in every record generated is_occupied is set if and only if
\* avg_person_count > 0.
C12_OccupiedIffCount ==
    gen_pc = "done" => (Generated.is_occupied = 1 <=> Generated.avg_person_count > 0)

C12_Witness ==
    /\ gen_pc = "done"
    /\ Generated.is_occupied = 1
    /\ Generated.avg_person_count = 1
    /\ Hour(gen_timestamp) = 19

\* a weekend hour outside [10,16), or a weekday hour before 8 or from 20 on
OffHours(timestamp) ==
    IF Weekday(timestamp) >= 5
    THEN Hour(timestamp) < 10 \/ Hour(timestamp) >= 16
    ELSE Hour(timestamp) < 8 \/ Hour(timestamp) >= 20

\* C13: a record generated for an off-hours timestamp has avg_person_count 0
\* and is_occupied unset, whatever the draws.
C13_OffHoursEmpty ==
    (gen_pc = "done" /\ OffHours(gen_timestamp))
    => /\ Generated.avg_person_count = 0
       /\ Generated.is_occupied = 0

\* Saturday 16:30 and a draw that adds 5 to the peak
C13_Witness ==
    /\ gen_pc = "done"
    /\ Weekday(gen_timestamp) = 5
    /\ Hour(gen_timestamp) = 16
    /\ Generated.avg_person_count = 0
    /\ Generated.max_person_count = 5

\* C14: in the first tick a write is attempted in every room's iteration,
\* whatever count was generated (0 included), and when the first tick's for
\* loop is through every configured room has a record in the store.
C14_FirstTickAlwaysWrites ==
    /\ (tick = 1 /\ (sim_room # 1 \/ sim_pc = "raised")) => wrote # "no"
    /\ (tick = 1 /\ sim_room = 0)
       => \A room_id \in 1..ROOM_IDS :
              /\ sink_last[room_id] # <<>>
              /\ last_written_state[room_id] # SENTINEL

\* the first tick is through with two rooms, the last one generated count 0
C14_Witness ==
    /\ tick = 1
    /\ sim_room = 0
    /\ ROOM_IDS = 2
    /\ current_count = 0
    /\ wrote = "ok"
    /\ sink_last[2] = <<0>>

\* C15: the batch the committer is working on has at least 1 and at most
\* BATCH_SIZE records, exactly BATCH_SIZE when it was handed over as a full
\* batch (so that all batches before a trailing one are full), and the
\* in-flight batch has fewer than BATCH_SIZE records whenever the driver is
\* about to generate a record.
C15_BatchSizes ==
    /\ pc \in {"commit", "ret"}
       => /\ Len(data_batch) >= 1
          /\ Len(data_batch) <= BATCH_SIZE
          /\ (call_site = "full" => Len(data_batch) = BATCH_SIZE)
          /\ Len(submitted) = BATCH_SIZE * (Len(sites) - 1) + Len(data_batch)
    /\ pc = "loop" => Len(data_batch) < BATCH_SIZE

\* a trailing batch of 1 record after a full batch of 3
C15_Witness ==
    /\ pc = "commit"
    /\ call_site = "trailing"
    /\ BATCH_SIZE = 3
    /\ Len(data_batch) = 1
    /\ Len(sites) = 2

\* C16: each room's last written count is the sentinel as long as no record of
\* the room is in the store, and otherwise the avg_person_count of the newest
\* record stored for the room; a failed write leaves it at that value.
C16_StateMirrorsStore ==
    sim_pc # "idle"
    => /\ \A room_id \in 1..ROOM_IDS :
              IF sink_last[room_id] = <<>>
              THEN last_written_state[room_id] = SENTINEL
              ELSE sink_last[room_id] = <<last_written_state[room_id]>>
       /\ (wrote = "failed" => last_written_state[sim_room] # current_count)

\* a write of count 8 failed after a stored record with count 5
C16_Witness ==
    /\ wrote = "failed"
    /\ current_count = 8
    /\ sink_last[sim_room] = <<5>>
    /\ last_written_state[sim_room] = 5

\* C17: the i-th wait of an invocation is 5 * 2^(i-1), one wait is taken for
\* every transient failure and none otherwise (none before the first call,
\* none for a success), and an exhausted invocation has waited 5, 10, 20, 40
\* and, after its 5th failure, 80.
C17_BackoffSchedule ==
    /\ \A i \in 1..Len(waited) : waited[i] = 5 * 2 ^ (i - 1)
    /\ Len(waited) = Cardinality({i \in 1..Len(calls) : calls[i] = "transient"})
    /\ result = "exhausted" => waited = <<5, 10, 20, 40, 80>>

C17_Witness ==
    /\ result = "exhausted"
    /\ Len(calls) = 5
    /\ waited[5] = 80

\* C18: every commit call of an invocation was given exactly the records of
\* batch_data, in order, and while the committer runs and when it has ended
\* the caller's data_batch is still the sequence that was passed in.
C18_WholeBatchEveryAttempt ==
    /\ Len(sent) = attempt
    /\ \A i \in 1..Len(sent) : sent[i] = batch_data
    /\ (pc \in {"commit", "ret", "returned"} \/ result = "raised") => data_batch = batch_data

\* five attempts on a batch of 3 records
C18_Witness ==
    /\ result = "exhausted"
    /\ Len(sent) = 5
    /\ Len(batch_data) = 3
    /\ sent[5] = data_batch

\* C19: once a commit call has failed fatally the run has ended: every record
\* generated belongs to a batch handed over up to then, no invocation of the
\* committer and no commit call follows, and the store holds none of that batch.
C19_FatalEndsRun ==
    (calls # <<>> /\ Last(calls) = "fatal")
    => /\ pc = "raised"
       /\ points_generated = Len(submitted)
       /\ Len(sites) = Len(outcomes)
       /\ Len(calls) = attempt
       /\ Len(sink) = Len(submitted) - Len(batch_data)

\* the third batch failed fatally with history left to generate
C19_Witness ==
    /\ pc = "raised"
    /\ Last(calls) = "fatal"
    /\ Len(outcomes) = 3
    /\ call_site = "full"
    /\ current_time + Interval < now

\* the invocations of the committer for a full batch that returned success
SuccessfulFull == {i \in 1..Len(outcomes) : sites[i] = "full" /\ outcomes[i] = "success"}

\* C20: whenever the driver is about to generate a record it has paused
\* exactly once for every full batch committed so far and the in-flight batch
\* holds only the records generated since the last commit (none right after
\* one); and no pause has been taken for a commit that failed.
C20_OnePausePerCommittedBatch ==
    /\ pc = "loop"
       => /\ pauses = Cardinality(SuccessfulFull)
          /\ Len(data_batch) = points_generated - Len(submitted)
    /\ (outcomes # <<>> /\ Last(outcomes) # "success") => pauses = Cardinality(SuccessfulFull)

\* generation resumes after the second full batch
C20_Witness ==
    /\ pc = "loop"
    /\ MoreTicks
    /\ Len(outcomes) = 2
    /\ pauses = 2
    /\ data_batch = <<>>

\* a progress report is the assignment of line 97
Reported == progress' # progress

\* the progress value <<n, d>> is the percentage n / d
PercentLess(p, q) == p[1] * q[2] < q[1] * p[2]

\* the part of C21 about successive reports
C21_ReportsIncrease == [][Reported => PercentLess(progress, progress')]_vars

\* C21: every reported progress value is greater than the one before, the
\* count of points generated never exceeds the computed total of expected
\* points, and the reported percentage never exceeds 100, for every horizon,
\* interval, batch size and entity set.
C21_ProgressWithinTotal ==
    /\ [](pc \in {"loop", "commit", "ret", "completed", "returned"}
          => /\ points_generated <= total_points
             /\ progress[1] <= 100 * progress[2])
    /\ [][Reported => PercentLess(progress, progress')]_vars

\* the first n records the driver generates: tick by tick from the start of
\* the horizon, one record per room within a tick
GeneratedSequence(n) ==
    [i \in 1..n |->
        [room_id |-> ((i - 1) % ROOM_IDS) + 1,
         timestamp |-> (now - NUM_DAYS_HISTORY * SecondsPerDay)
                       + ((i - 1) \div ROOM_IDS) * Interval]]

\* the invocations of the committer that have returned success
Committed == {i \in 1..Len(outcomes) : outcomes[i] = "success"}

\* the number of records of the i-th batch handed to the committer
BatchLen(i) ==
    IF sites[i] = "full" THEN BATCH_SIZE ELSE Len(submitted) - BATCH_SIZE * (i - 1)

\* C22: at every point of a backfill run, after an abort too, the records
\* visible in the store are a prefix of the generated record sequence, and
\* they are exactly the records of the batches committed so far: the batches
\* 1..k for some k, each of them whole.
C22_SinkIsPrefixOfWholeBatches ==
    /\ Len(sink) <= points_generated
    /\ sink = GeneratedSequence(Len(sink))
    /\ sink = SubSeq(submitted, 1, Len(sink))
    /\ Committed = 1..Cardinality(Committed)
    /\ Len(sink) = IF Committed = {}
                   THEN 0
                   ELSE BATCH_SIZE * (Cardinality(Committed) - 1)
                        + BatchLen(Cardinality(Committed))

\* an aborted run: two whole batches of 3 are visible, the third batch was
\* handed over and nothing of it is visible
C22_Witness ==
    /\ pc = "returned"
    /\ BATCH_SIZE = 3
    /\ Len(sink) = 6
    /\ Len(submitted) = 9

\* C23: in a run where every commit succeeded, the records visible in the
\* store followed by the records of the in-flight batch are, one for one and
\* in order, the records generated so far; the records of a completed run are
\* all visible; and no record is visible twice.
C23_NoLossNoDuplication ==
    AllSucceeded
    => /\ pc = "loop" => sink \o data_batch = GeneratedSequence(points_generated)
       /\ pc = "completed" => sink = GeneratedSequence(points_generated)
       /\ \A i, j \in 1..Len(sink) : i # j => sink[i] # sink[j]

\* a completed run of 4 records: a full batch of 3 and a trailing batch of 1
C23_Witness ==
    /\ pc = "completed"
    /\ AllSucceeded
    /\ BATCH_SIZE = 3
    /\ Len(sink) = 4
    /\ points_generated = 4

\* the terminal states of the driver: `completed` (line 107 reached) and
\* `aborted` (the return of line 94)
Terminal == pc \in {"completed", "returned"}

\* the run has ended, in whatever way
Ended == pc \in {"completed", "returned", "raised"}

\* the bounds C24 gives hold, and every run ends
C24_AlwaysEnds ==
    /\ <>Ended
    /\ [](attempt <= max_retries)
    /\ [](current_time < now + Interval)

\* C24: when every commit call returns success or a transient error, every
\* backfill run eventually reaches a terminal state, completed or aborted; no
\* batch takes more than 5 commit calls and the clock never passes the first
\* tick at or after `now`.
C24_ReachesTerminalState ==
    /\ <>Terminal
    /\ [](attempt <= max_retries)
    /\ [](current_time < now + Interval)

\* the loop of the simulator can go on: an iteration can begin or a room can be
\* handled
LoopCanStep == ENABLED (SimTick \/ SimRoom)

\* the simulator leaves its loop in this step
LoopLeft == sim_pc = "running" /\ sim_pc' # "running"

\* C25: a running simulator can always take its next step (up to the
\* MaxTicks iterations explored); it leaves the loop only by an external
\* cancellation or a failed write; every iteration advances the virtual clock
\* by the acceleration factor and nothing else moves the clock; and from the
\* cancellation on the simulator takes no step, no record is written and
\* the last written state is not changed.
C25_RunsUntilCancelled ==
    /\ [](sim_pc = "running" => (LoopCanStep \/ (tick = MaxTicks /\ sim_room = 0)))
    /\ [][LoopLeft => (sim_pc' = "stopped" \/ wrote' = "failed")]_vars
    /\ [][tick' # tick
          => /\ tick' = tick + 1
             /\ current_simulated_time' = current_simulated_time + TIME_ACCELERATION_FACTOR]_vars
    /\ [][current_simulated_time' # current_simulated_time => tick' # tick]_vars
    /\ [][(sim_pc = "stopped" \/ sim_pc' = "stopped")
          => UNCHANGED <<sink_last, last_written_state, wrote, current_simulated_time>>]_vars
    /\ [](sim_pc = "stopped" => ~ENABLED NextSim)

\* cancelled during the third iteration, after room 1 was written and before
\* room 2 was handled
C25_Witness ==
    /\ sim_pc = "stopped"
    /\ tick = 3
    /\ sim_room = 2
    /\ sink_last[1] # <<>>

\* C26: a generated avg_person_count is 0 or in 5..35 in the weekday hours
\* 8-11 and 13-16, 0 or in 1..10 in the weekday hours 12 and 17-19, 0 or in
\* 1..5 in the weekend hours 10-15, and never above 35 for any timestamp.
C26_BandRanges ==
    gen_pc = "done"
    => LET count == Generated.avg_person_count
           hour == Hour(gen_timestamp)
           weekday == Weekday(gen_timestamp)
       IN  /\ count <= 35
           /\ (weekday < 5 /\ hour \in (8..11) \cup (13..16))
              => (count = 0 \/ count \in 5..35)
           /\ (weekday < 5 /\ hour \in {12} \cup (17..19))
              => (count = 0 \/ count \in 1..10)
           /\ (weekday >= 5 /\ hour \in 10..15)
              => (count = 0 \/ count \in 1..5)

\* Friday 19:30 with the largest count of the transitional band
C26_Witness ==
    /\ gen_pc = "done"
    /\ Weekday(gen_timestamp) = 4
    /\ Hour(gen_timestamp) = 19
    /\ Generated.avg_person_count = 10

====
